---- MODULE Spec2Model ----
(***************************************************************************)
(* State-machine model of src/src/sensorManager.cpp: the phased recording  *)
(* loop (monitorSensors), the FIFO reader (readAccelerometerDataForPhase)   *)
(* and the spectral classifier (performFFT).                                *)
(*                                                                          *)
(* Number representations                                                   *)
(*  - a sample of inputBuffer is accelX / 16384.0 with accelX an int16; the *)
(*    division by a power of two is exact, so the model keeps the int16     *)
(*    numerator (unit 1/16384 g);                                           *)
(*  - a magnitude is a float; the model keeps it as an integer number of    *)
(*    units of 2^-25, which is the float grid on [0.25, 0.5) and contains   *)
(*    the floats above it;                                                  *)
(*  - millis() is an unsigned counter that wraps; the model keeps it        *)
(*    modulo MillisMod.                                                     *)
(***************************************************************************)
EXTENDS Integers, Sequences, FiniteSets, TLC

\* ---------------------------------------------------------------- constants
\* Header constants (sensorManager.h / variant.h), scaled down.
MAX_SAMPLES == 3
BLOCK_SIZE == 12
PHASE_DURATION == 3
CYCLES_FOR_5_MIN == 2
SAMPLES == 4
\* Width of the millis() counter, and the longest one poll iteration lasts.
MillisMod == 8
MaxStep == 2
\* Longest recorded per-phase event history.
MaxTrace == 12

\* Constants set in sensorManager.cpp.
SAMPLING_FREQUENCY == 5
AXE_MIN_FREQ == 20
AXE_MAX_FREQ == 60
SAW_MIN_FREQ == 5
SAW_MAX_FREQ == 30
CHAINSAW_MIN_FREQ == 50
CHAINSAW_MAX_FREQ == 250
\* SOME_THRESHOLD 0.3 (a double) as the fraction ThresholdNum / ThresholdDen.
ThresholdNum == 3
ThresholdDen == 10
\* while (... retryCount < 3)
MaxRetries == 3
\* one sample per 6-byte FIFO group
GroupBytes == 6

\* Units per 1.0 of a magnitude.
MagUnit == 2^25

\* Magnitudes the transform may produce: 0, the two floats that surround the
\* double 0.3 (0.29999998f and 0.3f), 0.4f, 0.5f and 0.6f.
MagVals == {0, 10066329, 10066330, 13421773, 16777216, 20132660}

\* (high byte, low byte) of the X axis of a FIFO group the sensor may deliver:
\* 0x0001 = 1 and 0xFFFF = -1.
SamplePairs == {<<0, 1>>, <<255, 255>>}

\* FIFO depths a poll may observe.
FifoDepths == {0, BLOCK_SIZE - 1, BLOCK_SIZE}

\* Where the clock may stand when an acquisition starts: at 0, and one tick
\* before it wraps.
ClockStarts == {0, MillisMod - 1}

VARIABLES
    pc,                     \* position in monitorSensors and its callees
    remainingCycles,        \* int remainingCycles
    entryCycles,            \* remainingCycles when monitorSensors was entered
    phase,                  \* loop variable of the phase loop
    phaseCompleted,         \* bool phaseCompleted
    retryCount,             \* int retryCount
    loggingSuccess,         \* bool loggingSuccess of the current attempt
    power,                  \* sensor rail, as set by toggleSensorPower
    mounted,                \* SPIFFS mounted
    haltSignalled,          \* quickBlinkAndHalt has been called
    inputBuffer,            \* float inputBuffer[MAX_SAMPLES]
    samplesRead,            \* int samplesRead of the latest acquisition
    startMillis,            \* unsigned long startMillis
    millis,                 \* the millis() clock
    lastPoll,               \* what the latest poll of the FIFO saw and did
    storeArg,               \* what logDataToSPIFFS was given in this attempt
    fft_input,              \* real_fft_plan->input while the plan exists
    magnitude,              \* per-bin magnitude of the output while the plan exists
    bin,                    \* loop variable i of the scoring loop
    frequency,              \* float frequency of the bin being scored
    max_axe_magnitude,      \* locals of performFFT
    max_saw_magnitude,
    max_chainsaw_magnitude,
    decision,               \* what performFFT printed
    hist                    \* events of the phase in progress, in order

vars == <<pc, remainingCycles, entryCycles, phase, phaseCompleted, retryCount,
          loggingSuccess, power, mounted, haltSignalled, inputBuffer,
          samplesRead, startMillis, millis, lastPoll, storeArg, fft_input,
          magnitude, bin, frequency, max_axe_magnitude, max_saw_magnitude, max_chainsaw_magnitude,
          decision, hist>>

schedVars == <<remainingCycles, entryCycles, phase, phaseCompleted, retryCount,
               loggingSuccess, power, mounted, haltSignalled>>
readerVars == <<inputBuffer, samplesRead, startMillis, millis, lastPoll>>
fftVars == <<fft_input, magnitude, bin, frequency, max_axe_magnitude,
             max_saw_magnitude, max_chainsaw_magnitude, decision>>

Bins == 1..((SAMPLES \div 2) - 1)
NoStore == [called |-> FALSE]
NoPlan == <<>>
NoPoll == [polled |-> FALSE]

\* ------------------------------------------------------------------ helpers
Log(e) == IF Len(hist) < MaxTrace THEN Append(hist, e) ELSE hist

Count(e, h) == Cardinality({i \in 1..Len(h) : h[i] = e})

\* int16_t accelX = (fifoBuffer[i] << 8) | fifoBuffer[i + 1];
Int16(hi, lo) ==
    LET u == hi * 256 + lo
    IN  IF u >= 32768 THEN u - 65536 ELSE u

\* for (...; i <= BLOCK_SIZE - 6 && samplesRead < MAX_SAMPLES; ...)
LoopGuardNoCap(i, n) == i <= BLOCK_SIZE - GroupBytes

LoopGuard(i, n) == i <= BLOCK_SIZE - GroupBytes /\ n < MAX_SAMPLES

\* The extraction loop over one block: the buffer and samplesRead after it.
RECURSIVE ExtractSamples(_, _, _, _)
ExtractSamples(buf, n, fifoBuffer, i) ==
    IF LoopGuard(i, n)
    THEN ExtractSamples([j \in DOMAIN buf |->
                            IF j = n THEN Int16(fifoBuffer[i], fifoBuffer[i + 1])
                            ELSE buf[j]],
                        n + 1, fifoBuffer, i + GroupBytes)
    ELSE [buf |-> buf, n |-> n]

\* The blocks the sensor may deliver: every 6-byte group starts with the two
\* bytes of its X axis, the other four bytes (Y and Z) are not read.
NumGroups == BLOCK_SIZE \div GroupBytes

Blocks ==
    { [i \in 0..(BLOCK_SIZE - 1) |->
          IF i % GroupBytes = 0 /\ (i \div GroupBytes) < NumGroups
          THEN g[i \div GroupBytes][1]
          ELSE IF i % GroupBytes = 1 /\ (i \div GroupBytes) < NumGroups
          THEN g[i \div GroupBytes][2]
          ELSE 0] : g \in [0..(NumGroups - 1) -> SamplePairs] }

\* millis() - startMillis in unsigned arithmetic
Elapsed == (millis - startMillis) % MillisMod

\* while (millis() - startMillis < PHASE_DURATION)
LoopConditionUntilFull == Elapsed < PHASE_DURATION /\ samplesRead < MAX_SAMPLES

LoopCondition == Elapsed < PHASE_DURATION

\* ------------------------------------------------------------------ initial
Init ==
    /\ pc = "boot"
    /\ remainingCycles = CYCLES_FOR_5_MIN
    /\ entryCycles = CYCLES_FOR_5_MIN
    /\ phase = 0
    /\ phaseCompleted = FALSE
    /\ retryCount = 0
    /\ loggingSuccess = FALSE
    /\ power = FALSE
    /\ mounted = TRUE
    /\ haltSignalled = FALSE
    /\ inputBuffer = [i \in 0..(MAX_SAMPLES - 1) |-> 0]
    /\ samplesRead = 0
    /\ startMillis = 0
    /\ millis = 0
    /\ lastPoll = NoPoll
    /\ storeArg = NoStore
    /\ fft_input = NoPlan
    /\ magnitude = [i \in Bins |-> 0]
    /\ bin = 0
    /\ frequency = 0
    /\ max_axe_magnitude = 0
    /\ max_saw_magnitude = 0
    /\ max_chainsaw_magnitude = 0
    /\ decision = "pending"
    /\ hist = <<>>

\* ------------------------------------------------------------- setupSensors
\* Powers the sensor on and initializes it; either result returns to the
\* caller, which then calls monitorSensors.
SetupSensors ==
    /\ pc = "boot"
    /\ power' = TRUE
    /\ pc' = "idle"
    /\ UNCHANGED <<remainingCycles, entryCycles, phase, phaseCompleted,
                   retryCount, loggingSuccess, mounted, haltSignalled,
                   storeArg, hist>>
    /\ UNCHANGED readerVars
    /\ UNCHANGED fftVars

\* ----------------------------------------------------------- monitorSensors
\* if (remainingCycles <= 0)
OutOfCyclesStrict == remainingCycles < 0

OutOfCycles == remainingCycles <= 0

\* { quickBlinkAndHalt(); return; }
MonitorHaltRearms ==
    /\ pc = "idle"
    /\ OutOfCycles
    /\ haltSignalled' = TRUE
    /\ remainingCycles' = CYCLES_FOR_5_MIN
    /\ pc' = "idle"
    /\ UNCHANGED <<entryCycles, phase, phaseCompleted, retryCount,
                   loggingSuccess, power, mounted, storeArg, hist>>
    /\ UNCHANGED readerVars
    /\ UNCHANGED fftVars

MonitorHalt ==
    /\ pc = "idle"
    /\ OutOfCycles
    /\ haltSignalled' = TRUE
    /\ pc' = "idle"
    /\ UNCHANGED <<remainingCycles, entryCycles, phase, phaseCompleted,
                   retryCount, loggingSuccess, power, mounted, storeArg, hist>>
    /\ UNCHANGED readerVars
    /\ UNCHANGED fftVars

\* entry of the phase loop: int phase = 1
MonitorEnter ==
    /\ pc = "idle"
    /\ ~OutOfCycles
    /\ phase' = 1
    /\ entryCycles' = remainingCycles
    /\ pc' = "phaseTest"
    /\ UNCHANGED <<remainingCycles, phaseCompleted, retryCount, loggingSuccess,
                   power, mounted, haltSignalled, storeArg, hist>>
    /\ UNCHANGED readerVars
    /\ UNCHANGED fftVars

\* phase <= CYCLES_FOR_5_MIN; bool phaseCompleted = false; int retryCount = 0;
PhaseLoopConditionOneMore == phase <= CYCLES_FOR_5_MIN + 1

PhaseLoopCondition == phase <= CYCLES_FOR_5_MIN

PhaseStart ==
    /\ pc = "phaseTest"
    /\ PhaseLoopCondition
    /\ phaseCompleted' = FALSE
    /\ retryCount' = 0
    /\ hist' = <<>>
    /\ storeArg' = NoStore
    /\ pc' = "loopTest"
    /\ UNCHANGED <<remainingCycles, entryCycles, phase, loggingSuccess, power,
                   mounted, haltSignalled>>
    /\ UNCHANGED readerVars
    /\ UNCHANGED fftVars

\* the phase loop ends and monitorSensors returns
MonitorReturn ==
    /\ pc = "phaseTest"
    /\ ~PhaseLoopCondition
    /\ pc' = "idle"
    /\ UNCHANGED schedVars
    /\ UNCHANGED <<storeArg, hist>>
    /\ UNCHANGED readerVars
    /\ UNCHANGED fftVars

\* while (!phaseCompleted && retryCount < 3)
AttemptGuardRetryOnly == retryCount < MaxRetries

AttemptGuard == ~phaseCompleted /\ retryCount < MaxRetries

LoopEnter ==
    /\ pc = "loopTest"
    /\ AttemptGuard
    /\ pc' = "powerOn"
    /\ UNCHANGED schedVars
    /\ UNCHANGED <<storeArg, hist>>
    /\ UNCHANGED readerVars
    /\ UNCHANGED fftVars

LoopExitPowersOff ==
    /\ pc = "loopTest"
    /\ ~AttemptGuard
    /\ power' = FALSE
    /\ pc' = "decrement"
    /\ UNCHANGED <<remainingCycles, entryCycles, phase, phaseCompleted,
                   retryCount, loggingSuccess, mounted, haltSignalled>>
    /\ UNCHANGED <<storeArg, hist>>
    /\ UNCHANGED readerVars
    /\ UNCHANGED fftVars

LoopExit ==
    /\ pc = "loopTest"
    /\ ~AttemptGuard
    /\ pc' = "decrement"
    /\ UNCHANGED schedVars
    /\ UNCHANGED <<storeArg, hist>>
    /\ UNCHANGED readerVars
    /\ UNCHANGED fftVars

\* toggleSensorPower(true); delay(1000);
PowerOn ==
    /\ pc = "powerOn"
    /\ power' = TRUE
    /\ hist' = Log("on")
    /\ storeArg' = NoStore
    /\ pc' = "init"
    /\ UNCHANGED <<remainingCycles, entryCycles, phase, phaseCompleted,
                   retryCount, loggingSuccess, mounted, haltSignalled>>
    /\ UNCHANGED readerVars
    /\ UNCHANGED fftVars

\* if (!initializeMPU()) { retryCount++; continue; }
InitFailWithoutContinue ==
    /\ pc = "init"
    /\ retryCount' = retryCount + 1
    /\ hist' = Log("initFail")
    /\ pc' = "readEnter"
    /\ UNCHANGED <<remainingCycles, entryCycles, phase, phaseCompleted,
                   loggingSuccess, power, mounted, haltSignalled, storeArg>>
    /\ UNCHANGED readerVars
    /\ UNCHANGED fftVars

InitFail ==
    /\ pc = "init"
    /\ retryCount' = retryCount + 1
    /\ hist' = Log("initFail")
    /\ pc' = "loopTest"
    /\ UNCHANGED <<remainingCycles, entryCycles, phase, phaseCompleted,
                   loggingSuccess, power, mounted, haltSignalled, storeArg>>
    /\ UNCHANGED readerVars
    /\ UNCHANGED fftVars

\* initializeMPU() returned true; readAccelerometerDataForPhase is entered:
\* int samplesRead = 0; unsigned long startMillis = millis();
InitOk ==
    /\ pc = "init"
    /\ hist' = Log("initOk")
    /\ pc' = "readEnter"
    /\ UNCHANGED schedVars
    /\ UNCHANGED storeArg
    /\ UNCHANGED readerVars
    /\ UNCHANGED fftVars

\* ------------------------------------------- readAccelerometerDataForPhase
\* int samplesRead = 0; unsigned long startMillis = millis();
\* The clock may stand anywhere when the acquisition starts.
ReadEnter ==
    /\ pc = "readEnter"
    /\ samplesRead' = 0
    /\ \E t \in ClockStarts : startMillis' = t /\ millis' = t
    /\ hist' = Log("read")
    /\ lastPoll' = NoPoll
    /\ pc' = "readLoop"
    /\ UNCHANGED inputBuffer
    /\ UNCHANGED schedVars
    /\ UNCHANGED storeArg
    /\ UNCHANGED fftVars

\* One iteration of the polling loop: getFIFOCount; when a block is there,
\* getFIFOBytes, resetFIFO and the extraction loop; then the delays, during
\* which the clock advances by at least one tick.
\* if (fifoCount >= BLOCK_SIZE)
BlockReadyWhenNonEmpty(fifoCount) == fifoCount > 0

BlockReady(fifoCount) == fifoCount >= BLOCK_SIZE

ReadPoll ==
    /\ pc = "readLoop"
    /\ LoopCondition
    /\ \E fifoCount \in FifoDepths :
          IF BlockReady(fifoCount)
          THEN \E fifoBuffer \in Blocks :
                  LET r == ExtractSamples(inputBuffer, samplesRead, fifoBuffer, 0)
                  IN  /\ inputBuffer' = r.buf
                      /\ samplesRead' = r.n
                      /\ lastPoll' = [polled |-> TRUE, fifoCount |-> fifoCount,
                                      bytesRead |-> BLOCK_SIZE, reset |-> TRUE,
                                      fifoBuffer |-> fifoBuffer]
          ELSE /\ UNCHANGED <<inputBuffer, samplesRead>>
               /\ lastPoll' = [polled |-> TRUE, fifoCount |-> fifoCount,
                               bytesRead |-> 0, reset |-> FALSE,
                               fifoBuffer |-> <<>>]
    /\ \E d \in 1..MaxStep : millis' = (millis + d) % MillisMod
    /\ pc' = "readLoop"
    /\ UNCHANGED startMillis
    /\ UNCHANGED schedVars
    /\ UNCHANGED <<storeArg, hist>>
    /\ UNCHANGED fftVars

\* the loop condition is false: return
ReadReturn ==
    /\ pc = "readLoop"
    /\ ~LoopCondition
    /\ pc' = "store"
    /\ startMillis' = 0
    /\ millis' = 0
    /\ lastPoll' = NoPoll
    /\ UNCHANGED <<inputBuffer, samplesRead>>
    /\ UNCHANGED schedVars
    /\ UNCHANGED <<storeArg, hist>>
    /\ UNCHANGED fftVars

\* ------------------------------------------------- monitorSensors, continued
\* bool loggingSuccess = logDataToSPIFFS(inputBuffer, MAX_SAMPLES, phase);
StoreCall(ok) ==
    /\ pc = "store"
    /\ loggingSuccess' = ok
    /\ storeArg' = [called |-> TRUE, data |-> inputBuffer,
                    count |-> MAX_SAMPLES, phase |-> phase]
    /\ hist' = Log(IF ok THEN "storeOk" ELSE "storeFail")
    /\ pc' = "stored"
    /\ UNCHANGED <<remainingCycles, entryCycles, phase, phaseCompleted,
                   retryCount, power, mounted, haltSignalled>>
    /\ UNCHANGED readerVars
    /\ UNCHANGED fftVars

StoreOk == StoreCall(TRUE)

StoreFail == StoreCall(FALSE)

\* if (loggingSuccess) { phaseCompleted = true; toggleSensorPower(false);
PowerOffSkipped ==
    /\ pc = "stored"
    /\ loggingSuccess
    /\ phaseCompleted' = TRUE
    /\ hist' = Log("off")
    /\ pc' = "fftInit"
    /\ UNCHANGED <<remainingCycles, entryCycles, phase, retryCount, power,
                   loggingSuccess, mounted, haltSignalled, storeArg>>
    /\ UNCHANGED readerVars
    /\ UNCHANGED fftVars

PowerOff ==
    /\ pc = "stored"
    /\ loggingSuccess
    /\ phaseCompleted' = TRUE
    /\ power' = FALSE
    /\ hist' = Log("off")
    /\ pc' = "fftInit"
    /\ UNCHANGED <<remainingCycles, entryCycles, phase, retryCount,
                   loggingSuccess, mounted, haltSignalled, storeArg>>
    /\ UNCHANGED readerVars
    /\ UNCHANGED fftVars

\* } else { SPIFFS.end(); if (!SPIFFS.begin(true)) break; }
RemountWithoutBreak(ok) ==
    /\ pc = "stored"
    /\ ~loggingSuccess
    /\ mounted' = ok
    /\ hist' = Log(IF ok THEN "remountOk" ELSE "remountFail")
    /\ pc' = "loopTest"
    /\ UNCHANGED <<remainingCycles, entryCycles, phase, phaseCompleted,
                   retryCount, loggingSuccess, power, haltSignalled, storeArg>>
    /\ UNCHANGED readerVars
    /\ UNCHANGED fftVars

Remount(ok) ==
    /\ pc = "stored"
    /\ ~loggingSuccess
    /\ mounted' = ok
    /\ hist' = Log(IF ok THEN "remountOk" ELSE "remountFail")
    /\ pc' = IF ok THEN "loopTest" ELSE "decrement"
    /\ UNCHANGED <<remainingCycles, entryCycles, phase, phaseCompleted,
                   retryCount, loggingSuccess, power, haltSignalled, storeArg>>
    /\ UNCHANGED readerVars
    /\ UNCHANGED fftVars

RemountOk == Remount(TRUE)

RemountFail == Remount(FALSE)

\* remainingCycles--;
DecrementIfCompleted ==
    /\ pc = "decrement"
    /\ remainingCycles' = IF phaseCompleted THEN remainingCycles - 1
                          ELSE remainingCycles
    /\ pc' = "interPhase"
    /\ UNCHANGED <<entryCycles, phase, phaseCompleted, retryCount,
                   loggingSuccess, power, mounted, haltSignalled, storeArg, hist>>
    /\ UNCHANGED readerVars
    /\ UNCHANGED fftVars

Decrement ==
    /\ pc = "decrement"
    /\ remainingCycles' = remainingCycles - 1
    /\ pc' = "interPhase"
    /\ UNCHANGED <<entryCycles, phase, phaseCompleted, retryCount,
                   loggingSuccess, power, mounted, haltSignalled, storeArg, hist>>
    /\ UNCHANGED readerVars
    /\ UNCHANGED fftVars

\* delay(5000); phase++
InterPhase ==
    /\ pc = "interPhase"
    /\ phase' = phase + 1
    /\ pc' = "phaseTest"
    /\ UNCHANGED <<remainingCycles, entryCycles, phaseCompleted, retryCount,
                   loggingSuccess, power, mounted, haltSignalled, storeArg, hist>>
    /\ UNCHANGED readerVars
    /\ UNCHANGED fftVars

\* --------------------------------------------------------------- performFFT
\* real_fft_plan->input[i] = (i < MAX_SAMPLES) ? inputBuffer[i] : 0;
TransformInput(buf) ==
    [i \in 0..(SAMPLES - 1) |-> IF i < MAX_SAMPLES THEN buf[i] ELSE 0]

\* fft_init, the copy loop and fft_execute. The transform is external: each
\* scored bin may come out with any magnitude.
FFTInit ==
    /\ pc = "fftInit"
    /\ fft_input' = TransformInput(inputBuffer)
    /\ magnitude' \in [Bins -> MagVals]
    /\ decision' = "pending"
    /\ hist' = Log("fft")
    /\ pc' = "fftScore"
    /\ UNCHANGED <<bin, frequency, max_axe_magnitude, max_saw_magnitude,
                   max_chainsaw_magnitude>>
    /\ UNCHANGED schedVars
    /\ UNCHANGED storeArg
    /\ UNCHANGED readerVars

\* float frequency = (i * SAMPLING_FREQUENCY) / SAMPLES;  (an int division)
FrequencyTimesSamples(i) == (i * SAMPLING_FREQUENCY) * SAMPLES

Frequency(i) == (i * SAMPLING_FREQUENCY) \div SAMPLES

Max(a, b) == IF a > b THEN a ELSE b

\* the if / else if chain of the scoring loop, for one bin
ScoreBinEveryBand(m, freq, mag) ==
    [axe |-> IF freq >= AXE_MIN_FREQ /\ freq <= AXE_MAX_FREQ
             THEN Max(mag, m.axe) ELSE m.axe,
     saw |-> IF freq >= SAW_MIN_FREQ /\ freq <= SAW_MAX_FREQ
             THEN Max(mag, m.saw) ELSE m.saw,
     chainsaw |-> IF freq >= CHAINSAW_MIN_FREQ /\ freq <= CHAINSAW_MAX_FREQ
                  THEN Max(mag, m.chainsaw) ELSE m.chainsaw]

ScoreBin(m, freq, mag) ==
    IF freq >= AXE_MIN_FREQ /\ freq <= AXE_MAX_FREQ
    THEN [m EXCEPT !.axe = Max(mag, m.axe)]
    ELSE IF freq >= SAW_MIN_FREQ /\ freq <= SAW_MAX_FREQ
    THEN [m EXCEPT !.saw = Max(mag, m.saw)]
    ELSE IF freq >= CHAINSAW_MIN_FREQ /\ freq <= CHAINSAW_MAX_FREQ
    THEN [m EXCEPT !.chainsaw = Max(mag, m.chainsaw)]
    ELSE m

\* float max_axe_magnitude = 0; float max_saw_magnitude = 0;
\* float max_chainsaw_magnitude = 0;
ScoreStartKept ==
    [axe |-> max_axe_magnitude, saw |-> max_saw_magnitude,
     chainsaw |-> max_chainsaw_magnitude]

ScoreStart == [axe |-> 0, saw |-> 0, chainsaw |-> 0]

\* the three maxima start at 0 and the scoring loop starts: int i = 1
FFTScore ==
    /\ pc = "fftScore"
    /\ max_axe_magnitude' = ScoreStart.axe
    /\ max_saw_magnitude' = ScoreStart.saw
    /\ max_chainsaw_magnitude' = ScoreStart.chainsaw
    /\ bin' = 1
    /\ pc' = "fftBin"
    /\ UNCHANGED <<fft_input, magnitude, frequency, decision>>
    /\ UNCHANGED schedVars
    /\ UNCHANGED <<storeArg, hist>>
    /\ UNCHANGED readerVars

\* i < (SAMPLES / 2)
ScoreLoopConditionWithNyquist(i) == i <= (SAMPLES \div 2)

ScoreLoopCondition(i) == i < (SAMPLES \div 2)

\* the loop goes on: frequency and magnitude of bin i
FFTBin ==
    /\ pc = "fftBin"
    /\ ScoreLoopCondition(bin)
    /\ frequency' = Frequency(bin)
    /\ pc' = "fftBand"
    /\ UNCHANGED <<fft_input, magnitude, bin, max_axe_magnitude,
                   max_saw_magnitude, max_chainsaw_magnitude, decision>>
    /\ UNCHANGED schedVars
    /\ UNCHANGED <<storeArg, hist>>
    /\ UNCHANGED readerVars

\* the band chain for bin i, then i++
FFTBand ==
    /\ pc = "fftBand"
    /\ LET m == ScoreBin([axe |-> max_axe_magnitude, saw |-> max_saw_magnitude,
                          chainsaw |-> max_chainsaw_magnitude],
                         frequency, magnitude[bin])
       IN  /\ max_axe_magnitude' = m.axe
           /\ max_saw_magnitude' = m.saw
           /\ max_chainsaw_magnitude' = m.chainsaw
    /\ bin' = bin + 1
    /\ pc' = "fftBin"
    /\ UNCHANGED <<fft_input, magnitude, frequency, decision>>
    /\ UNCHANGED schedVars
    /\ UNCHANGED <<storeArg, hist>>
    /\ UNCHANGED readerVars

\* the scoring loop ends
FFTLoopExit ==
    /\ pc = "fftBin"
    /\ ~ScoreLoopCondition(bin)
    /\ pc' = "fftDecide"
    /\ UNCHANGED fftVars
    /\ UNCHANGED schedVars
    /\ UNCHANGED <<storeArg, hist>>
    /\ UNCHANGED readerVars

\* magnitude > SOME_THRESHOLD: the float is widened to double and compared
\* with the double 0.3, which lies strictly between two neighbouring floats,
\* so the comparison with the fraction 3/10 decides the same.
Exceeds(m) == m * ThresholdDen > ThresholdNum * MagUnit

DecideAxeFirst(chainsaw, axe, saw) ==
    IF Exceeds(axe) THEN "axe"
    ELSE IF Exceeds(chainsaw) THEN "chainsaw"
    ELSE IF Exceeds(saw) THEN "handsaw"
    ELSE "none"

\* the if / else if chain of the decision
Decide(chainsaw, axe, saw) ==
    IF Exceeds(chainsaw) THEN "chainsaw"
    ELSE IF Exceeds(axe) THEN "axe"
    ELSE IF Exceeds(saw) THEN "handsaw"
    ELSE "none"

\* fft_destroy, which releases the plan with its input and output, and the
\* decision; performFFT returns into the attempt loop
FFTDecide ==
    /\ pc = "fftDecide"
    /\ fft_input' = NoPlan
    /\ magnitude' = [i \in Bins |-> 0]
    /\ decision' = Decide(max_chainsaw_magnitude, max_axe_magnitude,
                          max_saw_magnitude)
    /\ pc' = "loopTest"
    /\ UNCHANGED <<bin, frequency, max_axe_magnitude, max_saw_magnitude,
                   max_chainsaw_magnitude>>
    /\ UNCHANGED schedVars
    /\ UNCHANGED <<storeArg, hist>>
    /\ UNCHANGED readerVars

\* ------------------------------------------------------------ specifications
Next ==
    \/ SetupSensors
    \/ MonitorHalt
    \/ MonitorEnter
    \/ PhaseStart
    \/ MonitorReturn
    \/ LoopEnter
    \/ LoopExit
    \/ PowerOn
    \/ InitFail
    \/ InitOk
    \/ ReadEnter
    \/ ReadPoll
    \/ ReadReturn
    \/ StoreOk
    \/ StoreFail
    \/ PowerOff
    \/ RemountOk
    \/ RemountFail
    \/ Decrement
    \/ InterPhase
    \/ FFTInit
    \/ FFTScore
    \/ FFTBin
    \/ FFTBand
    \/ FFTLoopExit
    \/ FFTDecide

Spec == Init /\ [][Next]_vars

\* The program is one thread that keeps executing: a step that can be taken
\* is taken.
FairSpec == Spec /\ WF_vars(Next)

\* The decision of performFFT as a function of the three band maxima.
InitDecide ==
    /\ pc = "fftDecide"
    /\ remainingCycles = CYCLES_FOR_5_MIN
    /\ entryCycles = CYCLES_FOR_5_MIN
    /\ phase = 1
    /\ phaseCompleted = TRUE
    /\ retryCount = 0
    /\ loggingSuccess = TRUE
    /\ power = FALSE
    /\ mounted = TRUE
    /\ haltSignalled = FALSE
    /\ inputBuffer = [i \in 0..(MAX_SAMPLES - 1) |-> 0]
    /\ samplesRead = 0
    /\ startMillis = 0
    /\ millis = 0
    /\ lastPoll = NoPoll
    /\ storeArg = [called |-> TRUE, data |-> inputBuffer,
                   count |-> MAX_SAMPLES, phase |-> 1]
    /\ fft_input = TransformInput(inputBuffer)
    /\ magnitude = [i \in Bins |-> 0]
    /\ bin = SAMPLES \div 2
    /\ frequency = 0
    /\ max_axe_magnitude \in MagVals
    /\ max_saw_magnitude \in MagVals
    /\ max_chainsaw_magnitude \in MagVals
    /\ decision = "pending"
    /\ hist = <<"on", "initOk", "read", "storeOk", "off", "fft">>

DecideSpec == InitDecide /\ [][FFTDecide]_vars

\* performFFT from the declaration of its three maxima on, as a function of
\* the transform output: the memory the three locals get holds anything
\* before they are initialized.
InitClassify ==
    /\ pc = "fftScore"
    /\ remainingCycles = CYCLES_FOR_5_MIN
    /\ entryCycles = CYCLES_FOR_5_MIN
    /\ phase = 1
    /\ phaseCompleted = TRUE
    /\ retryCount = 0
    /\ loggingSuccess = TRUE
    /\ power = FALSE
    /\ mounted = TRUE
    /\ haltSignalled = FALSE
    /\ inputBuffer = [i \in 0..(MAX_SAMPLES - 1) |-> 0]
    /\ samplesRead = 0
    /\ startMillis = 0
    /\ millis = 0
    /\ lastPoll = NoPoll
    /\ storeArg = [called |-> TRUE, data |-> inputBuffer,
                   count |-> MAX_SAMPLES, phase |-> 1]
    /\ fft_input = TransformInput(inputBuffer)
    /\ magnitude \in [Bins -> MagVals]
    /\ bin = 0
    /\ frequency = 0
    /\ max_axe_magnitude \in MagVals
    /\ max_saw_magnitude \in MagVals
    /\ max_chainsaw_magnitude \in MagVals
    /\ decision = "pending"
    /\ hist = <<"on", "initOk", "read", "storeOk", "off", "fft">>

NextClassify ==
    \/ FFTScore
    \/ FFTBin
    \/ FFTBand
    \/ FFTLoopExit
    \/ FFTDecide

ClassifySpec == InitClassify /\ [][NextClassify]_vars

\* The scoring loop again, from its start and from the band chain of any bin
\* with any frequency around the band edges and any running maxima.
FreqVals == {0, 4, 5, 19, 20, 25, 30, 31, 49, 50, 55, 60, 61, 250, 251}

RunningMaxima == {0, 13421773}

InitBand ==
    /\ \/ pc = "fftScore" /\ bin = 0 /\ frequency = 0
       \/ pc = "fftBand" /\ bin \in Bins /\ frequency \in FreqVals
    /\ remainingCycles = CYCLES_FOR_5_MIN
    /\ entryCycles = CYCLES_FOR_5_MIN
    /\ phase = 1
    /\ phaseCompleted = TRUE
    /\ retryCount = 0
    /\ loggingSuccess = TRUE
    /\ power = FALSE
    /\ mounted = TRUE
    /\ haltSignalled = FALSE
    /\ inputBuffer = [i \in 0..(MAX_SAMPLES - 1) |-> 0]
    /\ samplesRead = 0
    /\ startMillis = 0
    /\ millis = 0
    /\ lastPoll = NoPoll
    /\ storeArg = [called |-> TRUE, data |-> inputBuffer,
                   count |-> MAX_SAMPLES, phase |-> 1]
    /\ fft_input = TransformInput(inputBuffer)
    /\ magnitude \in [Bins -> MagVals]
    /\ max_axe_magnitude \in RunningMaxima
    /\ max_saw_magnitude \in RunningMaxima
    /\ max_chainsaw_magnitude \in RunningMaxima
    /\ decision = "pending"
    /\ hist = <<"on", "initOk", "read", "storeOk", "off", "fft">>

BandSpec == InitBand /\ [][NextClassify]_vars

\* ------------------------------------------------------------------- claims
EndsWith(h, t) ==
    Len(h) >= Len(t) /\ SubSeq(h, Len(h) - Len(t) + 1, Len(h)) = t

\* hist holds every event of the phase so far
Unsaturated == Len(hist) < MaxTrace

FFTStates == {"fftInit", "fftScore", "fftBin", "fftBand", "fftDecide"}

\* C1: in every phase the attempt loop (power on, settle, initialize) runs at
\* most 3 times, whatever the initialization, store and remount outcomes.
C1_AtMostThreeAttempts == Count("on", hist) <= MaxRetries

\* C2: when the last three attempts of a phase failed to initialize, the phase
\* ends not completed and without any acquisition, store or classification
\* having been invoked during it.
C2_ThreeInitFailuresAbandon ==
    (/\ pc = "decrement"
     /\ Unsaturated
     /\ EndsWith(hist, <<"on", "initFail", "on", "initFail", "on", "initFail">>))
    => /\ ~phaseCompleted
       /\ Count("read", hist) = 0
       /\ Count("storeOk", hist) + Count("storeFail", hist) = 0
       /\ Count("fft", hist) = 0

\* C3: remainingCycles goes down by exactly 1 per phase iteration and by
\* nothing else: inside phase number p it is the value at entry minus p - 1,
\* and after the decrement of phase p it is the value at entry minus p,
\* whether the phase completed or was abandoned.
C3_DecrementOncePerPhase ==
    /\ phase = 0 => remainingCycles = entryCycles
    /\ (phase > 0 /\ pc # "interPhase") => remainingCycles = entryCycles - (phase - 1)
    /\ pc = "interPhase" => remainingCycles = entryCycles - phase

C3_Witness ==
    /\ pc = "interPhase"
    /\ phase = 2
    /\ ~phaseCompleted
    /\ EndsWith(hist, <<"storeFail", "remountFail">>)
    /\ remainingCycles = entryCycles - 2

\* C4: a call of monitorSensors with remainingCycles <= 0 signals halt and
\* returns: no phase is entered and nothing of the sensor, the storage, the
\* buffer or the classifier changes.
C4_HaltBeforeAnyPhase ==
    [][(pc = "idle" /\ remainingCycles <= 0)
        => /\ haltSignalled'
           /\ pc' = "idle"
           /\ UNCHANGED <<remainingCycles, phase, phaseCompleted, retryCount,
                          power, mounted, inputBuffer, samplesRead, storeArg,
                          fft_input, magnitude, decision, hist>>]_vars

C4_Witness == pc = "idle" /\ remainingCycles <= 0 /\ haltSignalled

\* C5: a phase whose first store fails, whose remount then succeeds and whose
\* next attempt initializes and stores successfully ends completed, after
\* exactly one classification and no further attempt.
StoreFailThenOk ==
    <<"on", "initOk", "read", "storeFail", "remountOk",
      "on", "initOk", "read", "storeOk">>

C5_RemountThenComplete ==
    (/\ pc = "decrement"
     /\ Len(hist) >= Len(StoreFailThenOk)
     /\ SubSeq(hist, 1, Len(StoreFailThenOk)) = StoreFailThenOk)
    => /\ phaseCompleted
       /\ Count("fft", hist) = 1
       /\ Count("on", hist) = 2

C5_Witness ==
    /\ pc = "decrement"
    /\ phaseCompleted
    /\ hist = StoreFailThenOk \o <<"off", "fft">>

\* C6: performFFT runs only when the store of the same attempt succeeded and
\* the sensor has then been powered off, with the rail off throughout, and
\* at most once per phase.
C6_ClassifyAfterStoreAndPowerOff ==
    /\ pc \in FFTStates => (loggingSuccess /\ ~power /\ storeArg.called)
    /\ (pc = "fftInit" /\ Unsaturated) => EndsWith(hist, <<"storeOk", "off">>)
    /\ (pc \in (FFTStates \ {"fftInit"}) /\ Unsaturated)
           => EndsWith(hist, <<"storeOk", "off", "fft">>)
    /\ pc = "fftInit" => Count("fft", hist) = 0
    /\ Count("fft", hist) <= 1

C6_Witness ==
    /\ pc = "fftScore"
    /\ ~power
    /\ hist = <<"on", "initOk", "read", "storeOk", "off", "fft">>

\* C7: the data given to the store and the transform input hold only the
\* samples of the acquisition of that attempt, followed by zeros.
C7_FreshZeroPaddedBuffer ==
    /\ storeArg.called
          => \A i \in samplesRead..(MAX_SAMPLES - 1) : storeArg.data[i] = 0
    /\ fft_input # NoPlan
          => \A i \in samplesRead..(SAMPLES - 1) : fft_input[i] = 0

\* C8: the decision is chainsaw when the chainsaw maximum is above 0.3, else
\* axe when the axe maximum is, else handsaw when the handsaw maximum is, else
\* none; maxima 0.4, 0.5, 0.6 (chainsaw, axe, handsaw) give chainsaw.
AboveThreshold(m) == m > (ThresholdNum * MagUnit) \div ThresholdDen

C8_DecisionPriority ==
    decision # "pending" =>
        LET c == AboveThreshold(max_chainsaw_magnitude)
            a == AboveThreshold(max_axe_magnitude)
            h == AboveThreshold(max_saw_magnitude)
        IN  /\ decision \in {"chainsaw", "axe", "handsaw", "none"}
            /\ decision = "chainsaw" <=> c
            /\ decision = "axe" <=> (~c /\ a)
            /\ decision = "handsaw" <=> (~c /\ ~a /\ h)
            /\ decision = "none" <=> (~c /\ ~a /\ ~h)

C8_Witness ==
    /\ decision = "chainsaw"
    /\ max_chainsaw_magnitude = 13421773
    /\ max_axe_magnitude = 16777216
    /\ max_saw_magnitude = 20132660

\* C9: an acquisition holds at most MAX_SAMPLES samples; a poll writes only
\* the positions samplesRead .. samplesRead' - 1 of the buffer, all within
\* 0 .. MAX_SAMPLES - 1, and writes nothing once the buffer is full.
C9_BoundedAppendOnly ==
    [][pc = "readLoop"
        => /\ samplesRead' >= samplesRead
           /\ samplesRead' <= MAX_SAMPLES
           /\ DOMAIN inputBuffer' = 0..(MAX_SAMPLES - 1)
           /\ \A i \in 0..(MAX_SAMPLES - 1) :
                 (i < samplesRead \/ i >= samplesRead')
                     => inputBuffer'[i] = inputBuffer[i]
           /\ samplesRead = MAX_SAMPLES
                 => UNCHANGED <<inputBuffer, samplesRead>>]_vars

C9_Witness ==
    /\ pc = "readLoop"
    /\ samplesRead = MAX_SAMPLES
    /\ LoopCondition

\* C10: the acquisition returns exactly when the elapsed time has reached
\* PHASE_DURATION: never before, full buffer or not, and always eventually,
\* whatever the queue delivers.
C10_ReturnsWhenBudgetElapses ==
    /\ [][(pc = "readLoop" /\ pc' # "readLoop")
            => (Elapsed >= PHASE_DURATION /\ pc' = "store")]_vars
    /\ [][(pc = "readLoop" /\ Elapsed >= PHASE_DURATION)
            => pc' = "store"]_vars
    /\ [](pc = "readLoop" => <>(pc = "store"))

C10_Witness ==
    /\ pc = "store"
    /\ samplesRead = 0

\* C11: classification is idempotent: the three maxima start from 0 in every
\* run, so the maxima and the decision of a run are a function of the
\* transform output of that run alone, whatever an earlier run left behind.
InBand(f, lo, hi) == f >= lo /\ f <= hi

BandOfFrequency(f) ==
    IF InBand(f, AXE_MIN_FREQ, AXE_MAX_FREQ) THEN "axe"
    ELSE IF InBand(f, SAW_MIN_FREQ, SAW_MAX_FREQ) THEN "handsaw"
    ELSE IF InBand(f, CHAINSAW_MIN_FREQ, CHAINSAW_MAX_FREQ) THEN "chainsaw"
    ELSE "none"

SetMax(S) == CHOOSE x \in S : \A y \in S : y <= x

ExpectedMax(band) ==
    SetMax({0} \cup {magnitude[i] :
                       i \in {j \in Bins : BandOfFrequency(Frequency(j)) = band}})

ExpectedDecision ==
    IF AboveThreshold(ExpectedMax("chainsaw")) THEN "chainsaw"
    ELSE IF AboveThreshold(ExpectedMax("axe")) THEN "axe"
    ELSE IF AboveThreshold(ExpectedMax("handsaw")) THEN "handsaw"
    ELSE "none"

C11_ClassificationIdempotent ==
    /\ [](pc = "fftDecide"
            => /\ max_axe_magnitude = ExpectedMax("axe")
               /\ max_saw_magnitude = ExpectedMax("handsaw")
               /\ max_chainsaw_magnitude = ExpectedMax("chainsaw"))
    /\ [][pc = "fftDecide" => decision' = ExpectedDecision]_vars

C11_Witness ==
    /\ pc = "fftDecide"
    /\ \A i \in Bins : magnitude[i] = 20132660
    /\ max_axe_magnitude = 0
    /\ max_saw_magnitude = 0
    /\ max_chainsaw_magnitude = 0

\* C12: budget exhaustion is permanent: remainingCycles never increases, and
\* once it is 0 no phase runs any more: the phase loop only winds up, and
\* every later call of monitorSensors only signals halt.
C12_ExhaustionIsPermanent ==
    /\ [][remainingCycles' <= remainingCycles]_vars
    /\ [](remainingCycles <= 0
            => /\ pc \in {"interPhase", "phaseTest", "idle"}
               /\ pc = "phaseTest" => ~PhaseLoopCondition)
    /\ [][(remainingCycles <= 0 /\ pc = "idle")
            => /\ pc' = "idle"
               /\ haltSignalled'
               /\ UNCHANGED <<power, mounted, inputBuffer, storeArg, fft_input,
                              decision, hist, phase>>]_vars

C12_Witness ==
    /\ pc = "idle"
    /\ remainingCycles = 0
    /\ haltSignalled
    /\ phase = CYCLES_FOR_5_MIN + 1
    /\ Count("on", hist) > 0

\* C13: every phase eventually ends: once the attempt loop of a phase is
\* entered, the decrement of remainingCycles is eventually reached, whatever
\* the initialization, store and remount outcomes.
C13_EveryPhaseEnds == [](pc = "loopTest" => <>(pc = "decrement"))

\* C14: the storage is remounted only right after a store call that failed;
\* a failed remount ends the phase at once: nothing more happens in it, it
\* is not completed, nothing is classified and retryCount counts only the
\* initialization failures.
C14_RemountOnlyAfterStoreFailure ==
    /\ \A i \in 1..Len(hist) :
          hist[i] \in {"remountOk", "remountFail"}
              => (i > 1 /\ hist[i - 1] = "storeFail")
    /\ \A i \in 1..Len(hist) : hist[i] = "remountFail" => i = Len(hist)
    /\ (Unsaturated /\ EndsWith(hist, <<"remountFail">>))
          => /\ pc \in {"decrement", "interPhase", "phaseTest", "idle"}
             /\ ~phaseCompleted
             /\ Count("fft", hist) = 0
             /\ retryCount = Count("initFail", hist)

C14_Witness ==
    /\ pc = "decrement"
    /\ ~phaseCompleted
    /\ retryCount = 1
    /\ hist = <<"on", "initFail", "on", "initOk", "read", "storeFail",
                "remountFail">>

\* C15: every acquisition and every store call comes, in the same attempt,
\* after a power-on and a successful initialization; a failed initialization
\* is followed by nothing but the power-on of the next attempt, counts 1 in
\* retryCount and leaves the sensor powered.
C15_AcquireOnlyAfterInit ==
    /\ \A i \in 1..Len(hist) :
          hist[i] = "read"
              => (i >= 3 /\ hist[i - 1] = "initOk" /\ hist[i - 2] = "on")
    /\ \A i \in 1..Len(hist) :
          hist[i] \in {"storeOk", "storeFail"}
              => (i >= 4 /\ hist[i - 1] = "read" /\ hist[i - 2] = "initOk"
                         /\ hist[i - 3] = "on")
    /\ \A i \in 1..Len(hist) :
          hist[i] = "initFail"
              => /\ i >= 2 /\ hist[i - 1] = "on"
                 /\ i < Len(hist) => hist[i + 1] = "on"
    /\ Unsaturated => retryCount = Count("initFail", hist)
    /\ pc \in {"readEnter", "readLoop", "store"} => power
    /\ (Unsaturated /\ EndsWith(hist, <<"initFail">>)) => power

C15_Witness ==
    /\ pc = "readLoop"
    /\ power
    /\ retryCount = 1
    /\ hist = <<"on", "initFail", "on", "initOk", "read">>

Min(a, b) == IF a < b THEN a ELSE b

\* the two's-complement 16-bit value of the big-endian byte pair hi, lo
SignedBigEndian(hi, lo) == ((hi * 256 + lo + 32768) % 65536) - 32768

Raised(old, mag) == IF mag > old THEN mag ELSE old

\* C17: the band chain runs for bins 1..SAMPLES/2-1 only and raises at most
\* one maximum per bin, that of the first band in the order axe, handsaw,
\* chainsaw whose range holds the bin's frequency; a frequency in two bands
\* raises the axe maximum only.
C17_FirstMatchingBandOnly ==
    /\ [](pc = "fftBand" => (bin >= 1 /\ bin <= (SAMPLES \div 2) - 1))
    /\ [][pc = "fftBand" =>
            LET inAxe == InBand(frequency, AXE_MIN_FREQ, AXE_MAX_FREQ)
                inSaw == InBand(frequency, SAW_MIN_FREQ, SAW_MAX_FREQ)
                inChainsaw == InBand(frequency, CHAINSAW_MIN_FREQ,
                                     CHAINSAW_MAX_FREQ)
                mag == magnitude[bin]
            IN  /\ max_axe_magnitude' =
                      IF inAxe THEN Raised(max_axe_magnitude, mag)
                      ELSE max_axe_magnitude
                /\ max_saw_magnitude' =
                      IF inSaw /\ ~inAxe THEN Raised(max_saw_magnitude, mag)
                      ELSE max_saw_magnitude
                /\ max_chainsaw_magnitude' =
                      IF inChainsaw /\ ~inAxe /\ ~inSaw
                      THEN Raised(max_chainsaw_magnitude, mag)
                      ELSE max_chainsaw_magnitude
                /\ Cardinality(
                      {b \in {"axe", "handsaw", "chainsaw"} :
                          \/ b = "axe"
                             /\ max_axe_magnitude' # max_axe_magnitude
                          \/ b = "handsaw"
                             /\ max_saw_magnitude' # max_saw_magnitude
                          \/ b = "chainsaw"
                             /\ max_chainsaw_magnitude'
                                   # max_chainsaw_magnitude}) <= 1]_vars

C17_Witness ==
    /\ pc = "fftBin"
    /\ frequency = 25
    /\ max_axe_magnitude = 20132660
    /\ max_saw_magnitude = 0
    /\ max_chainsaw_magnitude = 0

\* C18: with SAMPLING_FREQUENCY 5 every scored bin has a frequency below the
\* lowest band minimum, so it lies in no band, the three maxima stay 0 and
\* the decision is none, whatever the magnitudes.
C18_NoBinReachesAnyBand ==
    /\ pc = "fftBand" =>
          /\ frequency < SAW_MIN_FREQ
          /\ ~InBand(frequency, AXE_MIN_FREQ, AXE_MAX_FREQ)
          /\ ~InBand(frequency, SAW_MIN_FREQ, SAW_MAX_FREQ)
          /\ ~InBand(frequency, CHAINSAW_MIN_FREQ, CHAINSAW_MAX_FREQ)
    /\ max_axe_magnitude = 0
    /\ max_saw_magnitude = 0
    /\ max_chainsaw_magnitude = 0
    /\ decision \in {"pending", "none"}
    /\ (Unsaturated /\ Count("fft", hist) > 0 /\ pc \notin FFTStates)
          => decision = "none"

C18_Witness ==
    /\ pc = "fftDecide"
    /\ bin = SAMPLES \div 2
    /\ frequency < SAW_MIN_FREQ
    /\ \E i \in Bins : AboveThreshold(magnitude[i])
    /\ max_axe_magnitude = 0

\* C19: when a phase ends, and through the delay after it, the sensor is off
\* exactly if the phase completed; an abandoned phase leaves it powered.
C19_PowerOffIffCompleted ==
    pc \in {"decrement", "interPhase"} => (power <=> ~phaseCompleted)

C19_Witness ==
    /\ pc = "interPhase"
    /\ power
    /\ ~phaseCompleted
    /\ retryCount = MaxRetries

\* C20: remainingCycles stays within 0..CYCLES_FOR_5_MIN; only the first
\* invocation enters the phase loop, its phases are 1..CYCLES_FOR_5_MIN in
\* order, one per decrement, every store is tagged with the phase in
\* progress, and it returns with the counter at 0.
C20_CounterStaysInRange ==
    /\ remainingCycles \in 0..CYCLES_FOR_5_MIN
    /\ pc \notin {"boot", "idle"} => entryCycles = CYCLES_FOR_5_MIN
    /\ pc \notin {"boot", "idle", "interPhase"}
          => remainingCycles = CYCLES_FOR_5_MIN - phase + 1
    /\ pc \notin {"boot", "idle", "interPhase", "phaseTest"}
          => phase \in 1..CYCLES_FOR_5_MIN
    /\ pc = "interPhase"
          => (phase \in 1..CYCLES_FOR_5_MIN
              /\ remainingCycles = CYCLES_FOR_5_MIN - phase)
    /\ pc = "stored" => (storeArg.called /\ storeArg.phase = phase)
    /\ (pc = "idle" /\ phase # 0)
          => (phase = CYCLES_FOR_5_MIN + 1 /\ remainingCycles = 0)

C20_Witness ==
    /\ pc = "stored"
    /\ storeArg.called
    /\ storeArg.phase = CYCLES_FOR_5_MIN
    /\ remainingCycles = 1

====
